---- MODULE Spec2Model ----
(***************************************************************************)
(* Settings API of Ghost (core/server/api/v0.1/settings.js).               *)
(*                                                                         *)
(* Part I  models browse / read / edit over the settings cache.            *)
(* Part II models upload of routes.yaml (backup, replace, reload,          *)
(*         rollback), one step per promise callback.                       *)
(*                                                                         *)
(* Strings are sequences of tokens; the token "," is the comma that        *)
(* String.prototype.split(',') cuts at.                                    *)
(***************************************************************************)
EXTENDS Integers, Sequences, FiniteSets, TLC

\* Longest batch handed to edit.
MaxBatch == 2

\* ------------------------------------------------------------------------
\* JavaScript values handed to edit as setting.value
\* ------------------------------------------------------------------------
Str(s) == [t |-> "string", s |-> s]
Num(s) == [t |-> "number", s |-> s]
Undefined == [t |-> "undefined", s |-> <<>>]
\* The object {} that options = options || {} puts in place of a falsy value
EmptyObject == [t |-> "object", s |-> <<>>]

\* _.isString
isString(v) == v.t = "string"

\* JSON.stringify: a number becomes its decimal text, undefined stays
\* undefined (JSON.stringify(undefined) is undefined, not a string).
JSONstringify(v) ==
    CASE v.t = "number" -> Str(v.s)
      [] v.t = "string" -> Str(<<"\"">> \o v.s \o <<"\"">>)
      [] v.t = "object" -> Str(<<"{}">>)
      [] OTHER -> Undefined

\* The values options || {} replaces: undefined, '' and 0
falsy(v) ==
    \/ v.t = "undefined"
    \/ v.t = "string" /\ v.s = <<>>
    \/ v.t = "number" /\ v.s = <<"0">>

\* ------------------------------------------------------------------------
\* The settings cache and the callers
\* ------------------------------------------------------------------------
CachedKeys == {"title", "db_hash", "permalinks", "active_theme"}

\* Enumeration order of settingsCache.getAll()
KeyOrder == <<"title", "db_hash", "permalinks", "active_theme">>

Types == {"core", "blog", "theme"}

\* options.context: absent, present and not internal, present and internal
Contexts == {"none", "external", "internal"}

hasContext(ctx) == ctx # "none"

\* options.context && options.context.internal
isInternal(ctx) == ctx = "internal"

Setting(k, ty) == [key |-> k, type |-> ty, value |-> <<"v0">>]

\* The caches the program may have been started with: title is a blog
\* setting and db_hash a core setting; the class of the two reserved keys
\* is left open.
InitialCaches ==
    { [k \in CachedKeys |->
          Setting(k, CASE k = "title" -> "blog"
                       [] k = "db_hash" -> "core"
                       [] k = "permalinks" -> tp
                       [] OTHER -> ta)] : tp \in Types, ta \in Types }

VARIABLES
    cache,      \* settingsCache: key -> setting
    op,         \* the last API call: "none", "browse", "read", "edit"
    ctx,        \* its options.context
    arg,        \* its input: [key, batch, filter]
    deny,       \* keys for which the permission engine rejects this call
    env,        \* what the collaborators of this call do
    outcome,    \* how the returned promise settled (or the exception thrown)
    returned,   \* the settings of the result
    meta,       \* result.meta.filters.type (<<>> when not set)
    consulted,  \* keys for which canThis(...).<action>.setting(key) was called
    persisted,  \* what models.Settings.edit was called with, one per call
    steps,      \* the stages of edit that ran, in order
    normalized, \* object.settings of the edit call when it reaches line 239
    edited      \* key -> the value last given to a completed edit of the key

settingsVars ==
    <<cache, op, ctx, arg, deny, env, outcome, returned, meta, consulted,
      persisted, steps, normalized, edited>>

VARIABLES
    artifact,    \* content of <settings>/routes.yaml, or Absent
    backups,     \* second -> content of routes-<second>.yaml, or Absent
    app,         \* the routes the site app runs with; "broken" after a failed reload
    generators,  \* url generators: "active" or "released"
    clock,       \* moment(), in seconds
    up           \* uploader -> the state of its upload call

uploadVars == <<artifact, backups, app, generators, clock, up>>

vars == <<settingsVars, uploadVars>>

\* settingsCache.get(key, {resolve: false})
CacheHas(c, k) == k \in DOMAIN c

\* ------------------------------------------------------------------------
\* settingsFilter / settingsResult
\* ------------------------------------------------------------------------
RECURSIVE SplitFrom(_, _, _)
SplitFrom(s, i, cur) ==
    IF i > Len(s) THEN <<cur>>
    ELSE IF s[i] = "," THEN <<cur>> \o SplitFrom(s, i + 1, <<>>)
    ELSE SplitFrom(s, i + 1, Append(cur, s[i]))

\* filter.split(',')
Split(s) == SplitFrom(s, 1, <<>>)

\* _.includes(filteredTypes, setting.type)
Includes(segs, ty) == \E j \in DOMAIN segs : segs[j] = <<ty>>

\* filter is a string; the empty string and undefined are both falsy and
\* are both written <<>>.
settingsFilter(settings, filter) ==
    IF filter # <<>>
    THEN SelectSeq(settings, LAMBDA st : Includes(Split(filter), st.type))
    ELSE settings

\* settingsResult(settings, type).settings
settingsResult(settings, type) == settingsFilter(settings, type)

\* settingsResult(settings, type).meta.filters.type
settingsMeta(type) == IF type # <<>> THEN type ELSE <<>>

\* settingsCache.getAll() as the list _.filter walks
GetAll(c) == [i \in DOMAIN KeyOrder |-> c[KeyOrder[i]]]

\* ------------------------------------------------------------------------
\* browse
\* ------------------------------------------------------------------------
\* What canThis(options.context).browse.setting() is asked about
BrowseCapability == "browse.setting"

Filters == {<<>>, <<"blog">>, <<"core">>, <<"core", ",", "blog">>}

\* browseSettings stripping core settings for internal callers too
browseSettingsAlwaysStripped(c, cx, type) ==
    LET result == settingsResult(GetAll(c), type) IN
    IF ~hasContext(cx)
    THEN SelectSeq(result, LAMBDA st : st.type = "blog")
    ELSE SelectSeq(result, LAMBDA st : st.type # "core" /\ st.key # "permalinks")

\* The settings browse resolves with, when it resolves
browseSettings(c, cx, type) ==
    LET result == settingsResult(GetAll(c), type) IN
    IF ~hasContext(cx)
    THEN SelectSeq(result, LAMBDA st : st.type = "blog")
    ELSE IF ~isInternal(cx)
    THEN SelectSeq(result, LAMBDA st : st.type # "core" /\ st.key # "permalinks")
    ELSE result

browseOutcome(cx, d) ==
    IF ~hasContext(cx) THEN "ok"
    ELSE IF BrowseCapability \in d THEN "EngineRejection"
    ELSE "ok"

NoArg == [key |-> "", batch |-> <<>>, filter |-> <<>>]

\* The API is used in request/response cycles: a call is issued when the
\* previous one has been answered.
Idle == op = "none"

Browse ==
    /\ Idle
    /\ \E cx \in Contexts, f \in Filters, d \in SUBSET {BrowseCapability} :
        /\ op' = "browse"
        /\ ctx' = cx
        /\ arg' = [NoArg EXCEPT !.filter = f]
        /\ deny' = d
        /\ env' = "ok"
        /\ outcome' = browseOutcome(cx, d)
        /\ returned' = IF browseOutcome(cx, d) = "ok" THEN browseSettings(cache, cx, f)
                       ELSE <<>>
        /\ meta' = IF hasContext(cx) /\ browseOutcome(cx, d) = "ok"
                   THEN settingsMeta(f) ELSE <<>>
        /\ consulted' = IF hasContext(cx) THEN {BrowseCapability} ELSE {}
        /\ persisted' = <<>>
        /\ steps' = <<>>
        /\ normalized' = <<>>
        /\ UNCHANGED <<cache, edited, uploadVars>>

\* ------------------------------------------------------------------------
\* read
\* ------------------------------------------------------------------------
ReadKeys == CachedKeys \cup {"nokey"}

\* readGate without the rule that hides permalinks
readGateNoPermalinksRule(c, cx, k) ==
    IF ~CacheHas(c, k) THEN "NotFound"
    ELSE IF c[k].type = "core" /\ ~isInternal(cx) THEN "NoPermission"
    ELSE IF c[k].type = "blog" THEN "ok"
    ELSE "engine"

\* readGate without the branch that serves blog settings at once
readGateEngineForBlog(c, cx, k) ==
    IF ~CacheHas(c, k) THEN "NotFound"
    ELSE IF c[k].type = "core" /\ ~isInternal(cx) THEN "NoPermission"
    ELSE IF c[k].key = "permalinks" THEN "NotFound"
    ELSE "engine"

\* "engine" stands for: the outcome is the permission engine's verdict
readGate(c, cx, k) ==
    IF ~CacheHas(c, k) THEN "NotFound"
    ELSE IF c[k].type = "core" /\ ~isInternal(cx) THEN "NoPermission"
    ELSE IF c[k].key = "permalinks" THEN "NotFound"
    ELSE IF c[k].type = "blog" THEN "ok"
    ELSE "engine"

\* readOutcome without the rejection handler of line 199: the engine's own
\* error reaches the caller
readOutcomeEngineError(c, cx, k, d) ==
    IF readGate(c, cx, k) = "engine"
    THEN IF k \in d THEN "EngineRejection" ELSE "ok"
    ELSE readGate(c, cx, k)

\* How read settles; a rejection by the engine is replaced by
\* NoPermissionError (second argument of then, lines 199-201)
readOutcome(c, cx, k, d) ==
    IF readGate(c, cx, k) = "engine"
    THEN IF k \in d THEN "NoPermission" ELSE "ok"
    ELSE readGate(c, cx, k)

Read ==
    /\ Idle
    /\ \E cx \in Contexts, k \in ReadKeys : \E d \in SUBSET {k} :
        /\ op' = "read"
        /\ ctx' = cx
        /\ arg' = [NoArg EXCEPT !.key = k]
        /\ deny' = d
        /\ env' = "ok"
        /\ outcome' = readOutcome(cache, cx, k, d)
        /\ returned' = IF readOutcome(cache, cx, k, d) = "ok"
                       THEN settingsResult(<<cache[k]>>, <<>>) ELSE <<>>
        /\ meta' = <<>>
        /\ consulted' = IF readGate(cache, cx, k) = "engine" THEN {k} ELSE {}
        /\ persisted' = <<>>
        /\ steps' = <<>>
        /\ normalized' = <<>>
        /\ UNCHANGED <<cache, edited, uploadVars>>

\* ------------------------------------------------------------------------
\* edit
\* ------------------------------------------------------------------------
Entry(k, v) == [key |-> k, value |-> v]

\* The entries callers put in a batch: every cached key and an unknown key
\* with a string value, one non-string value, and the synthetic type entry.
BatchEntries ==
    { Entry(k, Str(<<"X">>)) : k \in CachedKeys \cup {"nokey"} }
        \cup { Entry("title", Num(<<"1">>)),
               Entry("type", Str(<<"blog">>)),
               Entry("type", Str(<<"core", ",", "blog">>)) }

Batches == UNION { [1..n -> BatchEntries] : n \in 0..MaxBatch }

\* object.settings.forEach: stringify every value that is not a string
cleanData(settings) ==
    [i \in DOMAIN settings |->
        IF isString(settings[i].value) THEN settings[i]
        ELSE Entry(settings[i].key, JSONstringify(settings[i].value))]

\* object.settings.find(key === 'type'), then type = type.value
typeOf(settings) ==
    LET hits == SelectSeq(settings, LAMBDA e : e.key = "type") IN
    IF hits = <<>> THEN <<>>
    ELSE IF isString(hits[1].value) THEN hits[1].value.s
    ELSE <<>>

\* _.reject(object.settings, key === 'type')
rejectType(settings) == SelectSeq(settings, LAMBDA e : e.key # "type")

\* checkSettingPermissions without the rule for core settings
checkSettingPermissionsNoCoreRule(setting, cx) == "engine"

\* checkSettingPermissions, up to the call of the permission engine
checkSettingPermissions(setting, cx) ==
    IF setting.type = "core" /\ ~isInternal(cx) THEN "NoPermission"
    ELSE "engine"

\* checkOf without the rule for active_theme
checkOfNoThemeRule(c, cx, settingInfo) ==
    IF ~CacheHas(c, settingInfo.key) THEN "NotFound"
    ELSE checkSettingPermissions(c[settingInfo.key], cx)

\* checkOf reporting an unknown key with the error of active_theme
checkOfUnknownAsBadRequest(c, cx, settingInfo) ==
    IF ~CacheHas(c, settingInfo.key) THEN "BadRequest"
    ELSE IF c[settingInfo.key].key = "active_theme" THEN "BadRequest"
    ELSE checkSettingPermissions(c[settingInfo.key], cx)

\* One element of checks: the promise built for one entry. "engine" is the
\* promise of canThis(...).edit.setting(key).catch(...), pending when
\* Promise.all looks at it; the others are promises rejected on creation.
checkOf(c, cx, settingInfo) ==
    IF ~CacheHas(c, settingInfo.key) THEN "NotFound"
    ELSE IF c[settingInfo.key].key = "active_theme" THEN "BadRequest"
    ELSE checkSettingPermissions(c[settingInfo.key], cx)

checks(c, cx, settingsInfo) ==
    [i \in DOMAIN settingsInfo |-> checkOf(c, cx, settingsInfo[i])]

\* canEditAllSettings settling as soon as one check passes (Promise.any in
\* place of Promise.all)
canEditAllSettingsAny(c, cx, settingsInfo, d) ==
    LET ch == checks(c, cx, settingsInfo)
        passed == { i \in DOMAIN ch : ch[i] = "engine" /\ settingsInfo[i].key \notin d }
        rejected == { i \in DOMAIN ch : ch[i] # "engine" }
        first == CHOOSE i \in rejected : \A j \in rejected : i <= j
    IN  IF passed # {} \/ ch = <<>> THEN "ok"
        ELSE IF rejected # {} THEN ch[first]
        ELSE "NoPermission"

\* Promise.all(checks): rejects with the first promise of the array that is
\* already rejected; failing that with the rejection of a pending one, and
\* those all carry NoPermissionError; else it is fulfilled.
canEditAllSettings(c, cx, settingsInfo, d) ==
    LET ch == checks(c, cx, settingsInfo)
        rejected == { i \in DOMAIN ch : ch[i] # "engine" }
        first == CHOOSE i \in rejected : \A j \in rejected : i <= j
    IN  IF rejected # {} THEN ch[first]
        ELSE IF \E i \in DOMAIN ch : settingsInfo[i].key \in d THEN "NoPermission"
        ELSE "ok"

\* Keys for which canThis(options.context).edit.setting(key) is called:
\* map builds every check, whatever the earlier ones gave.
editConsulted(c, cx, settingsInfo) ==
    { settingsInfo[i].key : i \in { j \in DOMAIN settingsInfo :
                                       checkOf(c, cx, settingsInfo[j]) = "engine" } }

EnvOutcomes == {"ok", "invalid", "dbfail"}

\* How edit(object, options) settles. settings is object.settings after
\* cleanData and rejectType.
editOutcome(c, cx, settings, d, e) ==
    IF settings = <<>> THEN "TypeError"
    ELSE IF settings[1].key = "permalinks" THEN "NotFound"
    ELSE IF canEditAllSettings(c, cx, settings, d) # "ok"
    THEN canEditAllSettings(c, cx, settings, d)
    ELSE IF e = "invalid" THEN "ValidationError"
    ELSE IF e = "dbfail" THEN "PersistError"
    ELSE "ok"

\* Whether edit gets as far as canEditAllSettings
reachesAuthorize(settings) ==
    settings # <<>> /\ settings[1].key # "permalinks"

\* reachesPersist with models.Settings.edit called whatever checkObject gave
reachesPersistUnvalidated(c, cx, settings, d, e) ==
    /\ reachesAuthorize(settings)
    /\ canEditAllSettings(c, cx, settings, d) = "ok"

\* Whether edit gets as far as models.Settings.edit
reachesPersist(c, cx, settings, d, e) ==
    /\ reachesAuthorize(settings)
    /\ canEditAllSettings(c, cx, settings, d) = "ok"
    /\ e # "invalid"

editSteps(c, cx, settings, d, e) ==
    <<"normalize">>
        \o (IF reachesAuthorize(settings) THEN <<"authorize">> ELSE <<>>)
        \o (IF reachesAuthorize(settings)
                /\ canEditAllSettings(c, cx, settings, d) = "ok"
            THEN <<"validate">> ELSE <<>>)
        \o (IF reachesPersist(c, cx, settings, d, e) THEN <<"persist">> ELSE <<>>)

\* The model models.Settings.edit returns for one entry: the stored setting
\* with the value of the entry.
toJSON(c, e) == [key |-> e.key, type |-> c[e.key].type, value |-> e.value.s]

\* _.keyBy(_.invokeMap(settingsModelsArray, 'toJSON'), 'key') read back as
\* a list: one setting per key, at the place of the key's first entry, with
\* the value of its last entry.
keyBy(c, settings) ==
    LET firsts == SelectSeq([i \in DOMAIN settings |-> i],
                     LAMBDA i : \A j \in 1..(i - 1) : settings[j].key # settings[i].key)
        last(k) == CHOOSE i \in DOMAIN settings :
                      /\ settings[i].key = k
                      /\ \A j \in DOMAIN settings : settings[j].key = k => j <= i
    IN  [n \in DOMAIN firsts |->
            toJSON(c, settings[last(settings[firsts[n]].key)])]

\* The body of edit from line 220 on. given is what the caller passed (k
\* is the key of the shorthand form, "" for a batch), object is
\* object.settings as line 220 finds it.
EditCallAs(k, given, object, cx, d, e) ==
    LET cleaned == cleanData(object)
        type == typeOf(cleaned)
        settings == rejectType(cleaned)
        out == editOutcome(cache, cx, settings, d, e)
    IN  /\ op' = "edit"
        /\ ctx' = cx
        /\ arg' = [NoArg EXCEPT !.key = k, !.batch = given]
        /\ deny' = d
        /\ env' = e
        /\ outcome' = out
        /\ returned' = IF out = "ok"
                       THEN settingsResult(keyBy(cache, settings), type) ELSE <<>>
        /\ meta' = IF out = "ok" THEN settingsMeta(type) ELSE <<>>
        /\ consulted' = IF reachesAuthorize(settings)
                        THEN editConsulted(cache, cx, settings) ELSE {}
        /\ persisted' = IF reachesPersist(cache, cx, settings, d, e)
                        THEN <<settings>> ELSE <<>>
        /\ steps' = editSteps(cache, cx, settings, d, e)
        /\ normalized' = settings
        /\ UNCHANGED <<cache, edited, uploadVars>>

\* edit({settings: [...]}, options)
EditCall(object, cx, d, e) == EditCallAs("", object, object, cx, d, e)

\* edit(key, value): options = options || {} runs first, so a falsy value
\* is replaced by {}; the entry's value is options, and options, a string,
\* a number or {}, has no context: the call runs with no context.
EditShorthandCall(k, v, d, e) ==
    LET options == IF falsy(v) THEN EmptyObject ELSE v
    IN  EditCallAs(k, <<Entry(k, v)>>, <<Entry(k, options)>>, "none", d, e)

KeysOf(object) == { object[i].key : i \in DOMAIN object }

\* edit({settings: [...]}, options)
Edit ==
    /\ Idle
    /\ \E object \in Batches, cx \in Contexts, e \in EnvOutcomes :
          \E d \in SUBSET (KeysOf(object) \cap CachedKeys) :
              EditCall(object, cx, d, e)

\* edit(key, value): options is the value, a non-empty string or a number,
\* so options.context is undefined and the call runs with no context.
EditShorthand ==
    /\ Idle
    /\ \E en \in BatchEntries, e \in EnvOutcomes :
          \E d \in SUBSET ({en.key} \cap CachedKeys) :
              EditShorthandCall(en.key, en.value, d, e)

\* The values a caller may pass for a key: strings, the empty one included,
\* numbers, zero included, and no value at all.
GivenValues ==
    { Str(<<"X">>), Str(<<>>), Num(<<"7">>), Num(<<"0">>), Undefined }

GivenEntries == { Entry(k, v) : k \in {"title", "type"}, v \in GivenValues }

GivenBatches == UNION { [1..n -> GivenEntries] : n \in 0..MaxBatch }

\* edit({settings: [...]}, options) with any of the values above
EditGiven ==
    /\ Idle
    /\ \E object \in GivenBatches, cx \in Contexts, e \in EnvOutcomes :
          \E d \in SUBSET (KeysOf(object) \cap CachedKeys) :
              EditCall(object, cx, d, e)

\* edit(key, value) with any of the values above
EditShorthandGiven ==
    /\ Idle
    /\ \E en \in GivenEntries, e \in EnvOutcomes :
          \E d \in SUBSET ({en.key} \cap CachedKeys) :
              EditShorthandCall(en.key, en.value, d, e)

\* No edit of the key has completed yet
NotEdited == [t |-> "none", s |-> <<>>]

\* The last entry of settings with key k
lastOf(settings, k) ==
    settings[CHOOSE i \in DOMAIN settings :
                /\ settings[i].key = k
                /\ \A j \in DOMAIN settings : settings[j].key = k => j <= i]

\* The settings model announces the edited settings and the cache takes
\* them over: every key models.Settings.edit was given gets the value of
\* its last entry. edited notes, per key, the value the caller passed.
CacheRefresh ==
    /\ op = "edit" /\ outcome = "ok"
    /\ persisted # <<>>
    /\ steps = <<"normalize", "authorize", "validate", "persist">>
    /\ LET stored == persisted[1]
           given == rejectType(arg.batch)
           keys == { stored[i].key : i \in DOMAIN stored }
       IN  /\ cache' = [k \in CachedKeys |->
                          IF k \in keys THEN toJSON(cache, lastOf(stored, k))
                          ELSE cache[k]]
           /\ edited' = [k \in CachedKeys |->
                          IF k \in keys THEN lastOf(given, k).value
                          ELSE edited[k]]
    /\ steps' = Append(steps, "refresh")
    /\ UNCHANGED <<op, ctx, arg, deny, env, outcome, returned, meta,
                   consulted, persisted, normalized, uploadVars>>

\* ------------------------------------------------------------------------
SettingsInit ==
    /\ cache \in InitialCaches
    /\ op = "none"
    /\ ctx = "none"
    /\ arg = NoArg
    /\ deny = {}
    /\ env = "ok"
    /\ outcome = "ok"
    /\ returned = <<>>
    /\ meta = <<>>
    /\ consulted = {}
    /\ persisted = <<>>
    /\ steps = <<>>
    /\ normalized = <<>>
    /\ edited = [k \in CachedKeys |-> NotEdited]

\* The caller takes the answer; the record of the call is dropped.
Return ==
    /\ ~Idle
    /\ op' = "none"
    /\ ctx' = "none"
    /\ arg' = NoArg
    /\ deny' = {}
    /\ env' = "ok"
    /\ outcome' = "ok"
    /\ returned' = <<>>
    /\ meta' = <<>>
    /\ consulted' = {}
    /\ persisted' = <<>>
    /\ steps' = <<>>
    /\ normalized' = <<>>
    /\ UNCHANGED <<cache, edited, uploadVars>>

\* ========================================================================
\* Part II: upload of routes.yaml
\* ========================================================================
\* Last second of the clock that names the backups.
MaxTime == 1

Absent == "absent"

\* Contents of a routes.yaml
Contents == {"A", "B", "C"}

\* Contents handed to upload as options.path
NewContents == {"B", "C"}

\* Concurrent callers of upload
Uploaders == {"u1", "u2"}

Times == 0..MaxTime

IdleCall ==
    [pc |-> "idle", content |-> Absent, backupRoutesPath |-> 0, err |-> "none",
     result |-> "none", reloads |-> 0, restores |-> 0, resets |-> 0,
     prior |-> Absent, priorApp |-> Absent]

UploadStart(a) ==
    /\ artifact = a
    /\ backups = [t \in Times |-> Absent]
    /\ app = a
    /\ generators = "active"
    /\ clock = 0
    /\ up = [u \in Uploaders |-> IdleCall]

\* The clock moves on between any two steps.
Tick ==
    /\ clock < MaxTime
    /\ clock' = clock + 1
    /\ UNCHANGED <<artifact, backups, app, generators, up, settingsVars>>

Ended(u, res) == up' = [up EXCEPT ![u].pc = "done", ![u].result = res]

Goto(u, next) == up' = [up EXCEPT ![u].pc = next]

\* upload(options) up to its first suspension: the backup path is fixed
\* from the clock and the permission check is started.
UploadCall(u, c) ==
    /\ up[u].pc = "idle"
    /\ up' = [up EXCEPT ![u] = [IdleCall EXCEPT !.pc = "permissions",
                                                !.content = c,
                                                !.backupRoutesPath = clock,
                                                !.prior = artifact,
                                                !.priorApp = app]]
    /\ UNCHANGED <<artifact, backups, app, generators, clock, settingsVars>>

\* PermissionsStep with the backup made before the verdict is looked at
PermissionsStepBackupFirst(u) ==
    /\ up[u].pc = "permissions"
    /\ \/ Goto(u, "backup") /\ UNCHANGED backups
       \/ /\ Ended(u, "NoPermission")
          /\ backups' = [backups EXCEPT ![up[u].backupRoutesPath] = artifact]
    /\ UNCHANGED <<artifact, app, generators, clock, settingsVars>>

\* localUtils.handlePermissions('settings', 'edit')(options)
PermissionsStep(u) ==
    /\ up[u].pc = "permissions"
    /\ \/ Goto(u, "backup")
       \/ Ended(u, "NoPermission")
    /\ UNCHANGED <<artifact, backups, app, generators, clock, settingsVars>>

\* BackupStep that moves routes.yaml to the backup path instead of copying
BackupStepMoving(u) ==
    /\ up[u].pc = "backup"
    /\ \/ /\ artifact # Absent
          /\ backups' = [backups EXCEPT ![up[u].backupRoutesPath] = artifact]
          /\ artifact' = Absent
          /\ Goto(u, "replace")
       \/ /\ artifact = Absent
          /\ Ended(u, "ENOENT")
          /\ UNCHANGED <<artifact, backups>>
       \/ /\ Ended(u, "BackupError")
          /\ UNCHANGED <<artifact, backups>>
    /\ UNCHANGED <<app, generators, clock, settingsVars>>

\* fs.copy(routes.yaml, backupRoutesPath)
BackupStep(u) ==
    /\ up[u].pc = "backup"
    /\ \/ /\ artifact # Absent
          /\ backups' = [backups EXCEPT ![up[u].backupRoutesPath] = artifact]
          /\ Goto(u, "replace")
       \/ /\ artifact = Absent
          /\ Ended(u, "ENOENT")
          /\ UNCHANGED backups
       \/ /\ Ended(u, "BackupError")
          /\ UNCHANGED backups
    /\ UNCHANGED <<artifact, app, generators, clock, settingsVars>>

\* fs.copy(options.path, routes.yaml); a failed copy leaves routes.yaml as
\* it was.
ReplaceStep(u) ==
    /\ up[u].pc = "replace"
    /\ \/ /\ artifact' = up[u].content
          /\ Goto(u, "reset")
       \/ /\ Ended(u, "ReplaceError")
          /\ UNCHANGED artifact
    /\ UNCHANGED <<backups, app, generators, clock, settingsVars>>

\* urlService.resetGenerators({releaseResourcesOnly: true})
ResetStep(u) ==
    /\ up[u].pc = "reset"
    /\ \/ /\ generators' = "released"
          /\ up' = [up EXCEPT ![u].pc = "reload", ![u].resets = @ + 1]
       \/ /\ Ended(u, "ResetError")
          /\ UNCHANGED generators
    /\ UNCHANGED <<artifact, backups, app, clock, settingsVars>>

\* ReloadStep without the catch block: a throw of reload() goes straight
\* to the caller.
ReloadStepNoRollback(u) ==
    /\ up[u].pc = "reload"
    /\ \/ /\ app' = artifact
          /\ generators' = "active"
          /\ up' = [up EXCEPT ![u].pc = "done", ![u].result = "ok",
                               ![u].reloads = @ + 1]
       \/ /\ app' = "broken"
          /\ UNCHANGED generators
          /\ up' = [up EXCEPT ![u].pc = "done", ![u].err = "ReloadError",
                               ![u].result = "ReloadError", ![u].reloads = @ + 1]
    /\ UNCHANGED <<artifact, backups, clock, settingsVars>>

\* try { return siteApp.reload(); } catch (err) { fs.copy(backup, ...) }
\* reload() is a synchronous call: it returns, or it throws and the catch
\* block starts the copy that brings the backup back.
ReloadStep(u) ==
    /\ up[u].pc = "reload"
    /\ \/ /\ app' = artifact
          /\ generators' = "active"
          /\ up' = [up EXCEPT ![u].pc = "done", ![u].result = "ok",
                               ![u].reloads = @ + 1]
       \/ /\ app' = "broken"
          /\ UNCHANGED generators
          /\ up' = [up EXCEPT ![u].pc = "restore", ![u].err = "ReloadError",
                               ![u].reloads = @ + 1]
    /\ UNCHANGED <<artifact, backups, clock, settingsVars>>

\* fs.copy(backupRoutesPath, routes.yaml) settles
RestoreStep(u) ==
    /\ up[u].pc = "restore"
    /\ \/ /\ backups[up[u].backupRoutesPath] # Absent
          /\ artifact' = backups[up[u].backupRoutesPath]
          /\ up' = [up EXCEPT ![u].pc = "reloadAgain", ![u].restores = @ + 1]
       \/ /\ UNCHANGED artifact
          /\ up' = [up EXCEPT ![u].pc = "done", ![u].result = "RestoreError",
                               ![u].restores = @ + 1]
    /\ UNCHANGED <<backups, app, generators, clock, settingsVars>>

\* ReloadAgainStep that goes back to the restore when the reload throws
ReloadAgainStepRetrying(u) ==
    /\ up[u].pc = "reloadAgain"
    /\ \/ /\ app' = artifact
          /\ generators' = "active"
          /\ up' = [up EXCEPT ![u].pc = "rethrow", ![u].reloads = @ + 1]
       \/ /\ app' = "broken"
          /\ UNCHANGED generators
          /\ up' = [up EXCEPT ![u].pc = IF up[u].reloads < 3 THEN "restore" ELSE "done",
                               ![u].result = IF up[u].reloads < 3 THEN "none"
                                             ELSE "ReloadAgainError",
                               ![u].reloads = @ + 1]
    /\ UNCHANGED <<artifact, backups, clock, settingsVars>>

\* .then(() => siteApp.reload()): a throw here rejects the chain with the
\* new error and the last then is skipped.
ReloadAgainStep(u) ==
    /\ up[u].pc = "reloadAgain"
    /\ \/ /\ app' = artifact
          /\ generators' = "active"
          /\ up' = [up EXCEPT ![u].pc = "rethrow", ![u].reloads = @ + 1]
       \/ /\ app' = "broken"
          /\ UNCHANGED generators
          /\ up' = [up EXCEPT ![u].pc = "done", ![u].result = "ReloadAgainError",
                               ![u].reloads = @ + 1]
    /\ UNCHANGED <<artifact, backups, clock, settingsVars>>

\* .then(() => { throw err; })
RethrowStep(u) ==
    /\ up[u].pc = "rethrow"
    /\ Ended(u, up[u].err)
    /\ UNCHANGED <<artifact, backups, app, generators, clock, settingsVars>>

\* The caller takes the answer.
UploadReturn(u) ==
    /\ up[u].pc = "done"
    /\ up' = [up EXCEPT ![u] = IdleCall]
    /\ UNCHANGED <<artifact, backups, app, generators, clock, settingsVars>>

UploadStep(u) ==
    \/ PermissionsStep(u)
    \/ BackupStep(u)
    \/ ReplaceStep(u)
    \/ ResetStep(u)
    \/ ReloadStep(u)
    \/ RestoreStep(u)
    \/ ReloadAgainStep(u)
    \/ RethrowStep(u)

\* ------------------------------------------------------------------------
\* download
\* ------------------------------------------------------------------------
\* How fs.readFile may fail on a file that is there
ReadFileOutcomes == {"ok", "EACCES"}

\* An error: its code property and whether isIgnitionError accepts it
Error(kind, code) ==
    [kind |-> kind, code |-> code,
     ignition |-> kind \in {"NoPermissionError", "NotFoundError"}]

NoError == Error("none", "none")

\* handlePermissions('settings', 'browse')(options): rejects with a
\* NoPermissionError when the engine refuses the capability
handlePermissions(capability, d) ==
    IF capability \in d THEN Error("NoPermissionError", "none") ELSE NoError

\* fs.readFile(routesPath): the system error of a missing or unreadable file
readFile(a, e) ==
    IF a = Absent THEN Error("Error", "ENOENT")
    ELSE IF e = "EACCES" THEN Error("Error", "EACCES")
    ELSE NoError

\* The rejection that reaches the catch of download: that of the permission
\* check, else that of readFile
downloadError(a, d, e) ==
    IF handlePermissions(BrowseCapability, d) # NoError
    THEN handlePermissions(BrowseCapability, d)
    ELSE readFile(a, e)

\* The catch without the test for a missing file
downloadCatchNoENOENT(err) ==
    IF err = NoError THEN "ok"
    ELSE IF err.ignition THEN err.kind
    ELSE "NotFoundError"

\* The catch without the test for errors that are classified already
downloadCatchNoIgnition(err) ==
    IF err = NoError THEN "ok"
    ELSE IF err.code = "ENOENT" THEN "empty"
    ELSE "NotFoundError"

\* The catch of lines 308-319: what download settles with. "ok" is the
\* text read, "empty" the empty list.
downloadCatch(err) ==
    IF err = NoError THEN "ok"
    ELSE IF err.code = "ENOENT" THEN "empty"
    ELSE IF err.ignition THEN err.kind
    ELSE "NotFoundError"

\* The outcome as the other calls name it
downloadOutcome(a, d, e) ==
    LET settled == downloadCatch(downloadError(a, d, e)) IN
    CASE settled \in {"ok", "empty"} -> "ok"
      [] settled = "NoPermissionError" -> "NoPermission"
      [] settled = "NotFoundError" -> "NotFound"

Download ==
    /\ Idle
    /\ \E cx \in Contexts, e \in ReadFileOutcomes,
          d \in SUBSET {BrowseCapability} :
        /\ op' = "download"
        /\ ctx' = cx
        /\ arg' = NoArg
        /\ deny' = d
        /\ env' = e
        /\ outcome' = downloadOutcome(artifact, d, e)
        /\ returned' = IF downloadCatch(downloadError(artifact, d, e)) = "ok"
                       THEN <<artifact>> ELSE <<>>
        /\ meta' = <<>>
        /\ consulted' = {BrowseCapability}
        /\ persisted' = <<>>
        /\ steps' = IF handlePermissions(BrowseCapability, d) = NoError
                    THEN <<"permissions", "readFile">>
                    ELSE <<"permissions">>
        /\ normalized' = <<>>
        /\ UNCHANGED <<cache, edited, uploadVars>>

\* ========================================================================
\* Specifications
\* ========================================================================
\* The settings calls, routes.yaml at rest.
Init == SettingsInit /\ UploadStart("A")

Next == Browse \/ Read \/ Edit \/ EditShorthand \/ Return

Spec == Init /\ [][Next]_vars

\* Uploads issued one after the other, the settings cache at rest.
NoOtherUpload(u) == \A v \in Uploaders \ {u} : up[v].pc = "idle"

UploadInit ==
    /\ SettingsInit
    /\ cache = [k \in CachedKeys |->
                   Setting(k, IF k = "db_hash" THEN "core" ELSE "blog")]
    /\ \E a \in {"A", Absent} : UploadStart(a)

UploadCallInTurn(u, c) == NoOtherUpload(u) /\ UploadCall(u, c)

UploadNext ==
    \/ \E u \in Uploaders, c \in NewContents : UploadCallInTurn(u, c)
    \/ \E u \in Uploaders : PermissionsStep(u)
    \/ \E u \in Uploaders : BackupStep(u)
    \/ \E u \in Uploaders : ReplaceStep(u)
    \/ \E u \in Uploaders : ResetStep(u)
    \/ \E u \in Uploaders : ReloadStep(u)
    \/ \E u \in Uploaders : RestoreStep(u)
    \/ \E u \in Uploaders : ReloadAgainStep(u)
    \/ \E u \in Uploaders : RethrowStep(u)
    \/ \E u \in Uploaders : UploadReturn(u)
    \/ Tick

UploadSpec == UploadInit /\ [][UploadNext]_vars

\* Every promise callback of a running upload is eventually run.
UploadFairSpec ==
    UploadSpec /\ \A u \in Uploaders : WF_vars(UploadStep(u))

\* Edits with every kind of value, the cache following the settings model,
\* and reads of what was edited.
EditInit ==
    /\ SettingsInit
    /\ cache = [k \in CachedKeys |->
                   Setting(k, IF k = "db_hash" THEN "core" ELSE "blog")]
    /\ UploadStart("A")

EditNext == EditGiven \/ EditShorthandGiven \/ CacheRefresh \/ Read \/ Return

EditSpec == EditInit /\ [][EditNext]_vars

\* Uploads and downloads of routes.yaml, one call at a time.
UploadCallAtRest(u, c) == Idle /\ UploadCallInTurn(u, c)

DownloadAtRest == (\A u \in Uploaders : up[u].pc = "idle") /\ Download

RoutesNext ==
    \/ \E u \in Uploaders, c \in NewContents : UploadCallAtRest(u, c)
    \/ \E u \in Uploaders : PermissionsStep(u)
    \/ \E u \in Uploaders : BackupStep(u)
    \/ \E u \in Uploaders : ReplaceStep(u)
    \/ \E u \in Uploaders : ResetStep(u)
    \/ \E u \in Uploaders : ReloadStep(u)
    \/ \E u \in Uploaders : RestoreStep(u)
    \/ \E u \in Uploaders : ReloadAgainStep(u)
    \/ \E u \in Uploaders : RethrowStep(u)
    \/ \E u \in Uploaders : UploadReturn(u)
    \/ DownloadAtRest
    \/ Return
    \/ Tick

RoutesSpec == UploadInit /\ [][RoutesNext]_vars

\* Two uploads at once: each uploader calls once, in different seconds, and
\* the steps of the two calls interleave freely.
ConcInit ==
    /\ SettingsInit
    /\ cache = [k \in CachedKeys |->
                   Setting(k, IF k = "db_hash" THEN "core" ELSE "blog")]
    /\ UploadStart("A")

UploadCallApart(u, c) ==
    /\ \A v \in Uploaders \ {u} :
          up[v].pc = "idle" \/ up[v].backupRoutesPath # clock
    /\ UploadCall(u, c)

ConcNext ==
    \/ \E u \in Uploaders, c \in NewContents : UploadCallApart(u, c)
    \/ \E u \in Uploaders : PermissionsStep(u)
    \/ \E u \in Uploaders : BackupStep(u)
    \/ \E u \in Uploaders : ReplaceStep(u)
    \/ \E u \in Uploaders : ResetStep(u)
    \/ \E u \in Uploaders : ReloadStep(u)
    \/ \E u \in Uploaders : RestoreStep(u)
    \/ \E u \in Uploaders : ReloadAgainStep(u)
    \/ \E u \in Uploaders : RethrowStep(u)
    \/ Tick

ConcSpec == ConcInit /\ [][ConcNext]_vars

\* ========================================================================
\* Properties
\* ========================================================================
\* object.settings of the recorded edit call, as canEditAllSettings gets it
EditedSettings == normalized

IsCore(k) == CacheHas(cache, k) /\ cache[k].type = "core"

\* Positions of the recorded batch that hold key k
PositionsOf(settings, k) == { i \in DOMAIN settings : settings[i].key = k }

\* An edit by a caller that is not internal, with a core setting in the batch
CoreEditFromOutside ==
    /\ op = "edit"
    /\ ~isInternal(ctx)
    /\ \E i \in DOMAIN EditedSettings : IsCore(EditedSettings[i].key)

CoreReadFromOutside ==
    op = "read" /\ IsCore(arg.key) /\ ~isInternal(ctx)

\* Position i of the batch is reached with no structural rejection before
\* it: the first entry is not permalinks and every entry up to i is a cached
\* key other than active_theme.
NoStructuralRejectionUpTo(settings, i) ==
    /\ settings[1].key # "permalinks"
    /\ \A j \in 1..i : CacheHas(cache, settings[j].key)
                          /\ settings[j].key # "active_theme"

\* C1 as stated: for every cached core setting and every caller that is not
\* internal, read of the key and edit of a batch containing the key end in
\* PermissionDenied, whatever the permission engine says.
C1_CoreAlwaysPermissionDenied ==
    /\ CoreReadFromOutside => outcome = "NoPermission"
    /\ CoreEditFromOutside => outcome = "NoPermission"

\* C1 amended: read of a core key from outside ends in PermissionDenied; an
\* edit from outside whose batch holds a core key never reaches persistence
\* and fails, with PermissionDenied unless a structural rejection comes
\* first in the batch (first entry permalinks, or an unknown key or
\* active_theme at or before the core entry).
C1_CoreNeverServedOutside ==
    /\ CoreReadFromOutside =>
          outcome = "NoPermission" /\ returned = <<>> /\ consulted = {}
    /\ CoreEditFromOutside =>
          /\ persisted = <<>>
          /\ outcome \in {"NoPermission", "NotFound", "BadRequest"}
          /\ \A i \in DOMAIN EditedSettings :
                (IsCore(EditedSettings[i].key)
                    /\ NoStructuralRejectionUpTo(EditedSettings, i))
                => outcome = "NoPermission"

\* An outside caller edits title and db_hash, the engine allowing both
C1_Witness ==
    /\ op = "edit" /\ ctx = "external" /\ deny = {} /\ env = "ok"
    /\ Len(arg.batch) = 2
    /\ arg.batch[1].key = "title" /\ arg.batch[2].key = "db_hash"
    /\ outcome = "NoPermission" /\ persisted = <<>>

HasKey(batch, k) == \E i \in DOMAIN batch : batch[i].key = k

\* C2: an edit whose batch holds permalinks at any position, for any
\* context, is rejected (with NotFound, says the claim; any rejection is
\* accepted here) and persistence is never invoked for that batch.
C2_PermalinksNeverEdited ==
    (op = "edit" /\ HasKey(arg.batch, "permalinks"))
        => (outcome # "ok" /\ persisted = <<>>)

\* C3 as stated: read of permalinks ends in NotFound for every context and
\* every class of the permalinks entry.
C3_PermalinksReadNotFound ==
    (op = "read" /\ arg.key = "permalinks") => outcome = "NotFound"

\* C3 amended: read of permalinks never succeeds and never consults the
\* engine; it ends in NotFound for every context, except that a core-class
\* permalinks entry read from outside ends in PermissionDenied.
C3_PermalinksReadHidden ==
    (op = "read" /\ arg.key = "permalinks") =>
        /\ returned = <<>>
        /\ consulted = {}
        /\ outcome = IF cache["permalinks"].type = "core" /\ ~isInternal(ctx)
                     THEN "NoPermission" ELSE "NotFound"

\* An internal caller reads permalinks
C3_Witness ==
    /\ op = "read" /\ arg.key = "permalinks" /\ ctx = "internal"
    /\ outcome = "NotFound"

\* C4 as stated: an edit whose batch holds active_theme ends in BadRequest
\* for any context and any other entries, and never reaches persistence.
C4_ActiveThemeBadRequest ==
    (op = "edit" /\ HasKey(arg.batch, "active_theme"))
        => (outcome = "BadRequest" /\ persisted = <<>>)

\* C4 amended: an edit whose batch holds active_theme never reaches
\* persistence and fails; it ends in BadRequest unless another rejection
\* comes first in the batch (first entry permalinks, or before active_theme
\* an unknown key or a core setting edited from outside).
C4_ActiveThemeNeverEdited ==
    (op = "edit" /\ HasKey(arg.batch, "active_theme")) =>
        /\ persisted = <<>>
        /\ outcome \in {"BadRequest", "NotFound", "NoPermission"}
        /\ \A i \in PositionsOf(EditedSettings, "active_theme") :
              (/\ EditedSettings[1].key # "permalinks"
               /\ \A j \in 1..(i - 1) :
                     /\ CacheHas(cache, EditedSettings[j].key)
                     /\ ~(IsCore(EditedSettings[j].key) /\ ~isInternal(ctx)))
              => outcome = "BadRequest"

\* An internal caller edits title and active_theme
C4_Witness ==
    /\ op = "edit" /\ ctx = "internal" /\ deny = {} /\ env = "ok"
    /\ Len(arg.batch) = 2
    /\ arg.batch[1].key = "title" /\ arg.batch[2].key = "active_theme"
    /\ outcome = "BadRequest" /\ persisted = <<>>

\* The permission check of one entry fails: a core setting from outside, or
\* the engine rejects the key
PermissionFails(k) ==
    CacheHas(cache, k) /\ ((IsCore(k) /\ ~isInternal(ctx)) \/ k \in deny)

\* C5: if the lookup or the permission check of any entry of an edit batch
\* fails, persistence is not invoked for any entry of the batch.
C5_BatchAllOrNothing ==
    (op = "edit" /\ \E i \in DOMAIN EditedSettings :
                        \/ ~CacheHas(cache, EditedSettings[i].key)
                        \/ PermissionFails(EditedSettings[i].key))
        => (persisted = <<>> /\ outcome # "ok")

\* Entry 1 passes its check, the engine rejects entry 2
C5_Witness ==
    /\ op = "edit" /\ ctx = "internal" /\ deny = {"db_hash"} /\ env = "ok"
    /\ Len(arg.batch) = 2
    /\ arg.batch[1].key = "title" /\ arg.batch[2].key = "db_hash"
    /\ persisted = <<>>

\* C9: browse with no context returns only blog settings and never the
\* permalinks entry, whatever its class.
C9_AnonymousBrowse ==
    (op = "browse" /\ ~hasContext(ctx)) =>
        \A i \in DOMAIN returned :
            returned[i].type = "blog" /\ returned[i].key # "permalinks"

\* ty is one of the comma-separated classes of filter f (no filter: any)
MatchesFilter(ty, f) ==
    \/ f = <<>>
    \/ \E i \in DOMAIN f : /\ f[i] = ty
                            /\ (i = 1 \/ f[i - 1] = ",")
                            /\ (i = Len(f) \/ f[i + 1] = ",")

Returned(k) == \E i \in DOMAIN returned : returned[i] = cache[k]

\* C10: when the engine allows browse, an internal caller gets every cached
\* core setting that matches the type filter; a caller that is not internal
\* gets no core setting and no permalinks entry.
C10_BrowseByContext ==
    (op = "browse" /\ hasContext(ctx) /\ BrowseCapability \notin deny) =>
        /\ outcome = "ok"
        /\ isInternal(ctx) =>
              \A k \in CachedKeys :
                  (IsCore(k) /\ MatchesFilter("core", arg.filter)) => Returned(k)
        /\ ~isInternal(ctx) =>
              \A i \in DOMAIN returned :
                  returned[i].type # "core" /\ returned[i].key # "permalinks"

\* An internal caller browses with the filter core,blog and gets db_hash
C10_Witness ==
    /\ op = "browse" /\ ctx = "internal" /\ outcome = "ok"
    /\ arg.filter = <<"core", ",", "blog">>
    /\ Returned("db_hash")

\* C6: when an upload passed the permission check and its reload failed,
\* the artifact is restored from the backup to the content it had before
\* the call, the app is reloaded a second time, and only after both does
\* the caller receive the original reload error.
C6_RollbackBeforeOriginalError ==
    \A u \in Uploaders :
        LET c == up[u] IN
        /\ c.err = "ReloadError" =>
              c.pc \in {"restore", "reloadAgain", "rethrow", "done"}
        /\ (c.err = "ReloadError" /\ c.pc \in {"reloadAgain", "rethrow"}) =>
              (artifact = c.prior /\ c.restores = 1)
        /\ c.pc = "rethrow" => (app = c.prior /\ c.reloads = 2)
        /\ (c.pc = "done" /\ c.err = "ReloadError") =>
              (c.restores = 1
               /\ c.result \in {"ReloadError", "RestoreError", "ReloadAgainError"})
        /\ (c.pc = "done" /\ c.result = "ReloadError") =>
              /\ c.prior # Absent
              /\ artifact = c.prior
              /\ app = c.prior
              /\ c.reloads = 2
              /\ c.restores = 1

\* upload(B) over A ends with the reload error, A back in place
C6_Witness ==
    \E u \in Uploaders :
        /\ up[u].pc = "done" /\ up[u].result = "ReloadError"
        /\ up[u].prior = "A" /\ up[u].content = "B"
        /\ artifact = "A" /\ app = "A"

\* C7: when an upload attempt has ended, in success or in failure at any
\* step, the artifact holds the uploaded or the prior content and the app
\* is in a loadable state (for the configuration the artifact holds, says
\* the claim; running with any configuration is accepted here).
C7_EndStateLoadable ==
    \A u \in Uploaders :
        up[u].pc = "done" =>
            /\ artifact \in {up[u].content, up[u].prior}
            /\ app # "broken"

\* C8, the state part: one call reloads at most twice and restores at most
\* once, and a failed second reload is what the caller gets.
NoRetry ==
    \A u \in Uploaders :
        LET c == up[u] IN
        /\ c.reloads <= 2
        /\ c.restores <= 1
        /\ c.result = "ReloadAgainError" => (c.pc = "done" /\ c.reloads = 2)
        /\ (c.pc = "done" /\ c.reloads = 2) =>
              /\ c.result \in {"ReloadError", "ReloadAgainError"}
              /\ (c.result = "ReloadAgainError") = (app = "broken")

\* C8: if the compensating reload fails the caller receives that failure
\* and nothing is retried: at most two reloads and one restore per call,
\* and every upload call ends.
C8_NoRetryAndTermination ==
    /\ []NoRetry
    /\ \A u \in Uploaders : (up[u].pc # "idle") ~> (up[u].pc = "done")

\* An upload ends with the failure of its second reload
C8_Witness ==
    \E u \in Uploaders :
        /\ up[u].pc = "done" /\ up[u].result = "ReloadAgainError"
        /\ up[u].reloads = 2 /\ up[u].restores = 1

\* ------------------------------------------------------------------------
\* read and edit against the permission engine
\* ------------------------------------------------------------------------
\* A read of a cached blog setting other than permalinks
BlogRead ==
    /\ op = "read" /\ CacheHas(cache, arg.key)
    /\ cache[arg.key].type = "blog" /\ arg.key # "permalinks"

\* C14: read of an existing blog setting whose key is not permalinks
\* succeeds for every context without consulting the engine; read of any
\* other setting that is not core succeeds only if the engine allows the
\* read of that key.
C14_BlogReadBypassesEngine ==
    /\ BlogRead =>
          /\ outcome = "ok"
          /\ consulted = {}
          /\ returned = <<cache[arg.key]>>
    /\ (/\ op = "read" /\ CacheHas(cache, arg.key)
        /\ ~IsCore(arg.key) /\ ~BlogRead /\ outcome = "ok")
        => (consulted = {arg.key} /\ arg.key \notin deny)

\* A caller with no context reads title, which the engine would refuse
C14_Witness ==
    /\ op = "read" /\ arg.key = "title" /\ ctx = "none"
    /\ deny = {"title"} /\ outcome = "ok" /\ consulted = {}

\* The engine was asked about a key of the call and rejected it
EngineRejects == op \in {"read", "edit"} /\ consulted \cap deny # {}

\* C15 as stated: whenever the engine rejects the check of a key in read or
\* edit, the call ends in PermissionDenied.
C15_EngineRejectionIsPermissionDenied ==
    EngineRejects => outcome = "NoPermission"

\* C15 amended: whenever the engine rejects the check of a key in read or
\* edit, the call fails, nothing is returned or persisted and the engine's
\* own error never reaches the caller; the call ends in PermissionDenied,
\* unless in edit another entry of the batch is an unknown key (NotFound)
\* or active_theme (BadRequest), whose rejection comes first.
C15_EngineRejectionNeverServed ==
    EngineRejects =>
        /\ returned = <<>> /\ persisted = <<>>
        /\ outcome \in {"NoPermission", "NotFound", "BadRequest"}
        /\ op = "read" => outcome = "NoPermission"
        /\ (\A i \in DOMAIN EditedSettings :
                /\ CacheHas(cache, EditedSettings[i].key)
                /\ EditedSettings[i].key # "active_theme")
            => outcome = "NoPermission"

\* The engine rejects the read of active_theme by an external caller
C15_Witness ==
    /\ op = "read" /\ ctx = "external" /\ arg.key = "active_theme"
    /\ consulted = {"active_theme"} /\ deny = {"active_theme"}
    /\ outcome = "NoPermission"

\* A read of a key the cache does not hold
AbsentRead == op = "read" /\ ~CacheHas(cache, arg.key)

\* Positions of the edited batch whose key the cache does not hold
AbsentPositions ==
    { i \in DOMAIN EditedSettings : ~CacheHas(cache, EditedSettings[i].key) }

\* C16 as stated: read of a key absent from the cache, and edit of a batch
\* holding an absent key, end in NotFound for every context, without
\* consulting the engine for that key and without invoking persistence.
C16_AbsentKeyNotFound ==
    /\ AbsentRead => outcome = "NotFound"
    /\ (op = "edit" /\ AbsentPositions # {}) => outcome = "NotFound"

\* C16 amended: read of an absent key ends in NotFound; an edit of a batch
\* holding an absent key fails without persistence and without consulting
\* the engine for that key, and ends in NotFound unless an entry before
\* the absent one is active_theme (BadRequest) or a core setting edited
\* from outside (PermissionDenied).
C16_AbsentKeyNeverServed ==
    /\ AbsentRead =>
          outcome = "NotFound" /\ consulted = {} /\ returned = <<>>
    /\ (op = "edit" /\ AbsentPositions # {}) =>
          /\ persisted = <<>> /\ returned = <<>>
          /\ \A i \in AbsentPositions : EditedSettings[i].key \notin consulted
          /\ outcome \in {"NotFound", "BadRequest", "NoPermission"}
          /\ \A i \in AbsentPositions :
                (\A j \in 1..(i - 1) :
                    CacheHas(cache, EditedSettings[j].key) =>
                        /\ EditedSettings[j].key # "active_theme"
                        /\ ~(IsCore(EditedSettings[j].key) /\ ~isInternal(ctx)))
                => outcome = "NotFound"

\* An internal caller edits title and a key the cache does not hold
C16_Witness ==
    /\ op = "edit" /\ ctx = "internal" /\ deny = {} /\ env = "ok"
    /\ Len(arg.batch) = 2
    /\ arg.batch[1].key = "title" /\ arg.batch[2].key = "nokey"
    /\ outcome = "NotFound" /\ persisted = <<>> /\ consulted = {"title"}

\* Every entry of the edited batch passes lookup and permission check
EveryEntryAuthorized ==
    \A i \in DOMAIN EditedSettings :
        /\ CacheHas(cache, EditedSettings[i].key)
        /\ EditedSettings[i].key # "active_theme"
        /\ ~PermissionFails(EditedSettings[i].key)

IsPrefix(s, t) == Len(s) <= Len(t) /\ \A i \in DOMAIN s : s[i] = t[i]

\* C17: the stages of an edit run in the order normalize, authorize,
\* validate, persist; persistence is invoked at most once per call and only
\* after the authorization of every entry and the validation of the batch
\* succeeded; a validation failure reaches the caller with persistence
\* never invoked.
C17_EditStagesInOrder ==
    op = "edit" =>
        /\ IsPrefix(steps, <<"normalize", "authorize", "validate", "persist">>)
        /\ Len(persisted) <= 1
        /\ persisted # <<>> =>
              /\ steps = <<"normalize", "authorize", "validate", "persist">>
              /\ persisted = <<EditedSettings>>
              /\ EveryEntryAuthorized
              /\ env # "invalid"
        /\ ("validate" \in { steps[i] : i \in DOMAIN steps } /\ env = "invalid")
            => (outcome = "ValidationError" /\ persisted = <<>>)

\* Both entries pass authorization and validation rejects the batch
C17_Witness ==
    /\ op = "edit" /\ ctx = "internal" /\ deny = {} /\ env = "invalid"
    /\ Len(arg.batch) = 2
    /\ arg.batch[1].key = "title" /\ arg.batch[2].key = "db_hash"
    /\ steps = <<"normalize", "authorize", "validate">>
    /\ outcome = "ValidationError" /\ persisted = <<>>

\* ------------------------------------------------------------------------
\* values through edit
\* ------------------------------------------------------------------------
\* The value the spec expects to be stored for a given value: the string
\* itself, or the serialization of a value that is not a string
Serialized(v) == IF isString(v) THEN v ELSE JSONstringify(v)

\* C11: after a successful edit of one editable key to a string value X and
\* the refresh of the cache, read of the key returns X; for a value that is
\* not a string, read returns its string serialization.
C11_RoundTrip ==
    (/\ op = "read" /\ outcome = "ok"
     /\ CacheHas(cache, arg.key)
     /\ edited[arg.key] # NotEdited)
    => returned[1].value = Serialized(edited[arg.key]).s

\* C20: for every edit, in either form, the entries that reach
\* authorization, validation and persistence hold no entry with key type
\* and every value is a string, the given string or the serialization of
\* the given value; the removed type entry is not persisted.
C20_NormalizedEntries ==
    op = "edit" =>
        LET given == rejectType(arg.batch) IN
        /\ Len(normalized) = Len(given)
        /\ \A i \in DOMAIN normalized :
              /\ normalized[i].key # "type"
              /\ isString(normalized[i].value)
              /\ normalized[i].value = Serialized(given[i].value)
        /\ persisted # <<>> => persisted = <<normalized>>

\* ------------------------------------------------------------------------
\* download
\* ------------------------------------------------------------------------
\* The permission check of the recorded download passed
DownloadAllowed == op = "download" /\ BrowseCapability \notin deny

\* C12: a download by a caller that passes the browse permission check,
\* while routes.yaml does not exist, resolves with an empty result and not
\* with an error.
C12_MissingArtifactEmpty ==
    (DownloadAllowed /\ artifact = Absent)
        => (outcome = "ok" /\ returned = <<>>)

\* A permitted download finds no routes.yaml
C12_Witness ==
    /\ DownloadAllowed /\ artifact = Absent
    /\ steps = <<"permissions", "readFile">> /\ outcome = "ok"

\* C13: every failure of download other than a missing file is reported as
\* NotFound, except a failure that is classified already, which goes
\* through unchanged; a denied permission check is reported as
\* PermissionDenied, never as NotFound or as an empty result, and the file
\* is not read.
C13_DownloadFailures ==
    op = "download" =>
        /\ ~DownloadAllowed =>
              /\ outcome = "NoPermission"
              /\ returned = <<>>
              /\ steps = <<"permissions">>
        /\ (DownloadAllowed /\ artifact # Absent /\ env = "EACCES")
              => (outcome = "NotFound" /\ returned = <<>>)
        /\ (DownloadAllowed /\ artifact # Absent /\ env = "ok")
              => (outcome = "ok" /\ returned = <<artifact>>)
        /\ outcome \in {"ok", "NotFound", "NoPermission"}

\* A download is refused while routes.yaml does not exist
C13_Witness ==
    /\ op = "download" /\ ~DownloadAllowed /\ artifact = Absent
    /\ outcome = "NoPermission" /\ steps = <<"permissions">>

\* ------------------------------------------------------------------------
\* the steps of upload
\* ------------------------------------------------------------------------
\* The places an upload may go to from each of its first five steps
NextPlaces(pc) ==
    CASE pc = "permissions" -> {"backup", "done"}
      [] pc = "backup" -> {"replace", "done"}
      [] pc = "replace" -> {"reset", "done"}
      [] pc = "reset" -> {"reload", "done"}
      [] pc = "reload" -> {"restore", "done"}
      [] OTHER -> {"idle", "permissions", "restore", "reloadAgain", "rethrow", "done"}

\* Some upload is at the step pc
SomeAt(pcs) == \E u \in Uploaders : up[u].pc \in pcs

\* Every step is entered from the one before it, and each effect belongs to
\* its step.
StepsInOrder ==
    /\ \A u \in Uploaders :
          up'[u].pc # up[u].pc => up'[u].pc \in NextPlaces(up[u].pc)
    /\ backups' # backups => SomeAt({"backup"})
    /\ artifact' # artifact => SomeAt({"replace", "restore"})
    /\ (generators' # generators /\ generators' = "released") => SomeAt({"reset"})
    /\ app' # app => SomeAt({"reload", "reloadAgain"})
    /\ \A u \in Uploaders :
          (up[u].pc = "permissions" /\ up'[u].pc = "done")
              => UNCHANGED <<artifact, backups, generators, app>>

\* What an upload that failed at one of the first four steps left undone
FailedEarly ==
    \A u \in Uploaders : up[u].pc = "done" =>
        /\ up[u].result = "NoPermission" =>
              /\ artifact = up[u].prior /\ app = up[u].priorApp
              /\ up[u].resets = 0 /\ up[u].reloads = 0
        /\ up[u].result \in {"BackupError", "ENOENT", "ReplaceError"} =>
              /\ artifact = up[u].prior /\ app = up[u].priorApp
              /\ up[u].resets = 0 /\ up[u].reloads = 0
        /\ up[u].result = "ResetError" =>
              /\ app = up[u].priorApp /\ up[u].reloads = 0
        /\ up[u].result = "ok" =>
              /\ up[u].resets = 1 /\ up[u].reloads = 1 /\ up[u].restores = 0
              /\ artifact = up[u].content /\ app = up[u].content

\* C18: upload performs its steps in the order permission check, backup,
\* replace, release of the generators, reload, and a failed step prevents
\* the later ones: a denied permission check leaves routes.yaml unchanged,
\* creates no backup, releases no generator and triggers no reload, and a
\* failed backup copy leaves routes.yaml unchanged.
C18_UploadStepsInOrder == []FailedEarly /\ [][StepsInOrder]_vars

\* An upload was refused: routes.yaml is as before and no backup exists
C18_Witness ==
    \E u \in Uploaders :
        /\ up[u].pc = "done" /\ up[u].result = "NoPermission"
        /\ artifact = up[u].prior /\ artifact # Absent
        /\ backups[up[u].backupRoutesPath] = Absent
        /\ generators = "active"

\* ------------------------------------------------------------------------
\* two uploads at once
\* ------------------------------------------------------------------------
BothEnded == \A u \in Uploaders : up[u].pc = "done"

Succeeded == { u \in Uploaders : up[u].result = "ok" }

\* Every call ended in success, in a failure before routes.yaml was
\* replaced, or in the original error after a completed rollback
EndedCleanly ==
    \A u \in Uploaders :
        up[u].result \in {"ok", "NoPermission", "BackupError", "ENOENT",
                          "ReplaceError", "ReloadError"}

====
